---------------------------- MODULE Spec2Model ----------------------------
(***************************************************************************)
(* Invoice extraction: the response normalisation pipeline of              *)
(* OCR_Invoices_Output_Excel.py (the Gemini variant holds the same code    *)
(* for every function modelled here but the retry loop, which both have).  *)
(*                                                                         *)
(* A JSON value is a record [t, n, d, s]: t is "str", "num" or "null", the *)
(* number is n / d (d = 1 for every number of a response), s is the string *)
(* as a sequence of one-character strings.  A parsed JSON object is the    *)
(* sequence of its fields in key order (a Python dict keeps insertion      *)
(* order), each field [key, isList, items]; a scalar field holds its one   *)
(* value in items.                                                         *)
(***************************************************************************)
EXTENDS Integers, Sequences, FiniteSets, TLC

VARIABLES
    pc,             \* where the modelled call stands
    json_data,      \* the parsed object handed to the reconciliation or pipeline
    reconciled,     \* what ensure_equal_length_arrays returned
    target_length,  \* the target length it computed (0: none)
    response_text,  \* the text of the model's response
    extracted,      \* what extract_json_from_response returned
    candidates,     \* the DataFrame of process_pdf before clean_dataframe
    returned,       \* the DataFrame process_pdf returned
    raised,         \* the exception process_pdf caught ("": none)
    files,          \* process_folder: the documents of the listed files
    position,       \* process_folder: the file the loop stands at
    all_data,       \* process_folder: the DataFrames collected
    combined_df,    \* process_folder: the combined DataFrame
    indexer,        \* the row order sort_values settled on
    api,            \* which function retries: "claude" or "gemini" ("": none)
    retries,        \* its parameter retries
    delay,          \* its parameter delay
    attempt,        \* the loop variable of for attempt in range(retries)
    calls,          \* the outcomes of the calls made to the model, in order
    sleeps          \* the arguments of the calls of time.sleep, in order

reconVars == <<reconciled, target_length>>
parseVars == <<response_text, extracted>>
docVars == <<candidates, returned, raised>>
folderVars == <<files, position, all_data, combined_df, indexer>>
retryVars == <<api, retries, delay, attempt, calls, sleeps>>
vars == <<pc, json_data, retryVars, reconVars, parseVars, docVars, folderVars, retryVars>>

(***************************************************************************)
(* Bounds of the model.                                                    *)
(***************************************************************************)
MaxFields == 3
MaxLen == 3
MaxText == 5
MaxRows == 2
MaxFiles == 2
MaxRetries == 4
MaxDelay == 2

(***************************************************************************)
(* JSON values.                                                            *)
(***************************************************************************)
Null == [t |-> "null", n |-> 0, d |-> 1, s |-> <<>>]
Frac(n, d) == [t |-> "num", n |-> n, d |-> d, s |-> <<>>]
Num(n) == Frac(n, 1)
Str(s) == [t |-> "str", n |-> 0, d |-> 1, s |-> s]
\* A nested object, kept by the number of its members.
Obj(n) == [t |-> "obj", n |-> n, d |-> 1, s |-> <<>>]

ListField(k, xs) == [key |-> k, isList |-> TRUE, items |-> xs]
ScalarField(k, x) == [key |-> k, isList |-> FALSE, items |-> <<x>>]

FieldNames == {"Date", "Product", "Qty", "U.Price", "Total"}
NumericKeys == {"Qty", "U.Price", "Total"}

(***************************************************************************)
(* extract_json_from_response                                              *)
(*                                                                         *)
(* A response text is a sequence of lexical chunks: the braces, the comma, *)
(* a word of prose, and whole members of an object:                        *)
(*   "P+"  "Product":["X"]        "P[]"  "Product":[]                      *)
(*   "P0"  "Product":0            "Pn"   "Product":null                    *)
(*   "T"   "Total":[10,20]        "E:"   "Extra": (an object follows)      *)
(***************************************************************************)
Chunks == {"{", "}", ",", "w", "P+", "P[]", "P0", "Pn", "T", "E:"}
MemberChunks == {"P+", "P[]", "P0", "Pn", "T"}

MemberField(c) ==
    CASE c = "P+" -> ListField("Product", <<Str(<<"X">>)>>)
      [] c = "P[]" -> ListField("Product", <<>>)
      [] c = "P0" -> ScalarField("Product", Num(0))
      [] c = "Pn" -> ScalarField("Product", Null)
      [] OTHER -> ListField("Total", <<Num(10), Num(20)>>)

\* None, and a returned object.
NoResult == [some |-> FALSE, data |-> <<>>]
Result(obj) == [some |-> TRUE, data |-> obj]

\* A DataFrame: its columns, and its rows as functions from Columns to cells;
\* the cell of a column the frame does not have is Absent.
Columns == {"Date", "Product", "Qty", "U.Price", "Total", "Marked_Up_Price", "Source"}
Absent == [t |-> "absent", n |-> 0, d |-> 1, s |-> <<>>]
EmptyFrame == [cols |-> {}, rows |-> <<>>]

\* The variables of the calls a specification does not make.
IdleRecon == reconciled = <<>> /\ target_length = 0
IdleParse == response_text = <<>> /\ extracted = NoResult
IdleDoc == candidates = EmptyFrame /\ returned = EmptyFrame /\ raised = ""
IdleFolder ==
    /\ files = <<>>
    /\ position = 0
    /\ all_data = <<>>
    /\ combined_df = EmptyFrame
    /\ indexer = <<>>
IdleRetry ==
    /\ api = ""
    /\ retries = 0
    /\ delay = 0
    /\ attempt = 0
    /\ calls = <<>>
    /\ sleeps = <<>>

Positions(text, c) == {i \in 1..Len(text) : text[i] = c}
Least(S) == CHOOSE i \in S : \A j \in S : i <= j
Greatest(S) == CHOOSE i \in S : \A j \in S : j <= i

\* Where a match of \{.*\} that starts at i ends: .* is greedy and, under
\* re.DOTALL, runs over anything, so the match ends at the last "}" after i.
LazyEnd(text, i) == Least({j \in Positions(text, "}") : j > i})
MatchEnd(text, i) == Greatest({j \in Positions(text, "}") : j > i})

\* re.search: the leftmost position where the pattern matches.
re_search(text) ==
    LET starts == {i \in Positions(text, "{") :
                       \E j \in Positions(text, "}") : j > i}
    IN  IF starts = {} THEN NoResult
        ELSE Result(SubSeq(text, Least(starts), MatchEnd(text, Least(starts))))

\* dict[key] = value: a key met again keeps its place and takes the new value.
Put(obj, f) ==
    IF \E i \in 1..Len(obj) : obj[i].key = f.key
    THEN [i \in 1..Len(obj) |-> IF obj[i].key = f.key THEN f ELSE obj[i]]
    ELSE Append(obj, f)

ParseFail == [ok |-> FALSE, obj |-> <<>>, next |-> 0]

\* json.loads on an object: "{" "}" or "{" member ("," member)* "}", a member
\* being a member chunk or "E:" and an object.
RECURSIVE ParseObject(_, _), ParseMembers(_, _, _)
ParseObject(sp, i) ==
    IF i > Len(sp) \/ sp[i] # "{" THEN ParseFail
    ELSE IF i + 1 <= Len(sp) /\ sp[i + 1] = "}"
         THEN [ok |-> TRUE, obj |-> <<>>, next |-> i + 2]
    ELSE ParseMembers(sp, i + 1, <<>>)

ParseMembers(sp, i, acc) ==
    IF i > Len(sp) THEN ParseFail
    ELSE LET inner == IF sp[i] = "E:" THEN ParseObject(sp, i + 1) ELSE ParseFail
             m == IF sp[i] \in MemberChunks
                    THEN [ok |-> TRUE, field |-> MemberField(sp[i]), next |-> i + 1]
                  ELSE IF sp[i] = "E:" /\ inner.ok
                    THEN [ok |-> TRUE,
                          field |-> ScalarField("Extra", Obj(Len(inner.obj))),
                          next |-> inner.next]
                  ELSE [ok |-> FALSE, field |-> ScalarField("", Null), next |-> 0]
         IN  IF ~m.ok \/ m.next > Len(sp) THEN ParseFail
             ELSE IF sp[m.next] = "}"
                  THEN [ok |-> TRUE, obj |-> Put(acc, m.field), next |-> m.next + 1]
             ELSE IF sp[m.next] = ","
                  THEN ParseMembers(sp, m.next + 1, Put(acc, m.field))
             ELSE ParseFail

\* json.loads(json_match.group()): NoResult stands for JSONDecodeError.
json_loads(sp) ==
    LET r == ParseObject(sp, 1)
    IN  IF r.ok /\ r.next = Len(sp) + 1 THEN Result(r.obj) ELSE NoResult

HasKey(obj, k) == \E i \in 1..Len(obj) : obj[i].key = k
Get(obj, k) == obj[CHOOSE i \in 1..Len(obj) : obj[i].key = k]

\* Python's truth value of a parsed JSON value.
Truthy(f) ==
    IF f.isList THEN f.items # <<>>
    ELSE LET v == f.items[1]
         IN  CASE v.t = "null" -> FALSE
               [] v.t = "num" -> v.n # 0
               [] v.t = "str" -> v.s # <<>>
               [] OTHER -> v.n # 0

\* 'Product' not in json_data or not json_data['Product']
KeyOnly(obj) == ~HasKey(obj, "Product")
LacksProduct(obj) == ~HasKey(obj, "Product") \/ ~Truthy(Get(obj, "Product"))

\* The try block: what is returned for what json.loads gave.
product_check(loaded) ==
    IF ~loaded.some THEN NoResult
    ELSE IF LacksProduct(loaded.data) THEN NoResult
    ELSE Result(loaded.data)

extract_json_from_response(text) ==
    LET json_match == re_search(text)
    IN  IF ~json_match.some THEN NoResult
        ELSE product_check(json_loads(json_match.data))

InitParse ==
    /\ pc = "response"
    /\ \E n \in 0..MaxText : response_text \in [1..n -> Chunks]
    /\ extracted = NoResult
    /\ json_data = <<>>
    /\ IdleRecon
    /\ IdleDoc
    /\ IdleFolder
    /\ IdleRetry

Extract ==
    /\ pc = "response"
    /\ pc' = "extracted"
    /\ extracted' = extract_json_from_response(response_text)
    /\ UNCHANGED <<response_text, json_data, retryVars, reconVars, docVars, folderVars>>

NextParse == Extract

SpecParse == InitParse /\ [][NextParse]_vars

(***************************************************************************)
(* ensure_equal_length_arrays                                              *)
(***************************************************************************)
\* isinstance(value, list), then len(...) > 0: the lengths of the non-empty
\* arrays, in the key order of the object.
IsNonEmptyList(f) == f.isList /\ Len(f.items) > 0

non_empty_lengths(jd) ==
    LET ne == SelectSeq(jd, IsNonEmptyList)
    IN  [i \in 1..Len(ne) |-> Len(ne[i].items)]

\* Counter(non_empty_lengths): the count of a length.
CountOf(lens, l) == Cardinality({i \in 1..Len(lens) : lens[i] = l})

\* Counter keeps its keys in the order they were first inserted.
RECURSIVE CounterKeys(_)
CounterKeys(lens) ==
    IF lens = <<>> THEN <<>>
    ELSE LET rest == CounterKeys(SubSeq(lens, 1, Len(lens) - 1))
             last == lens[Len(lens)]
         IN  IF \E i \in 1..Len(rest) : rest[i] = last THEN rest
             ELSE Append(rest, last)

\* A candidate replaces the running maximum of max() only when its count is
\* strictly greater: the first key of the greatest count wins.
LaterKeyWins(best, cand, lens) == CountOf(lens, cand) >= CountOf(lens, best)
Replaces(best, cand, lens) == CountOf(lens, cand) > CountOf(lens, best)

RECURSIVE MaxByCount(_, _, _)
MaxByCount(keys, best, lens) ==
    IF keys = <<>> THEN best
    ELSE MaxByCount(Tail(keys),
                    IF Replaces(best, Head(keys), lens) THEN Head(keys) ELSE best,
                    lens)

\* length_counts.most_common(1)[0][0], for a non-empty list of lengths.
most_common(lens) ==
    LET keys == CounterKeys(lens)
    IN  MaxByCount(Tail(keys), Head(keys), lens)

TextFiller(key) == Str(<<>>)
Filler(key) == IF key \in NumericKeys THEN Num(0) ELSE Str(<<>>)

FillShort(key, n) == [i \in 1..(n - 1) |-> Filler(key)]
Fill(key, n) == [i \in 1..n |-> Filler(key)]

KeepLonger(f, n) ==
    LET cur == Len(f.items)
    IN  IF cur = 0 THEN [f EXCEPT !.items = Fill(f.key, n)]
        ELSE IF cur < n THEN [f EXCEPT !.items = f.items \o Fill(f.key, n - cur)]
        ELSE f

\* The body of the loop over array_keys, for one array.
AdjustArray(f, n) ==
    LET cur == Len(f.items)
    IN  IF cur = 0 THEN [f EXCEPT !.items = Fill(f.key, n)]
        ELSE IF cur < n THEN [f EXCEPT !.items = f.items \o Fill(f.key, n - cur)]
        ELSE IF cur > n THEN [f EXCEPT !.items = SubSeq(f.items, 1, n)]
        ELSE f

ArrayIndices(jd) == {i \in 1..Len(jd) : jd[i].isList}
HasArrays(jd) == ArrayIndices(jd) # {}

\* The target length the function settles on; 0 stands for the two early
\* returns, where no target is computed.
TargetLength(jd) ==
    IF ~HasArrays(jd) \/ non_empty_lengths(jd) = <<>> THEN 0
    ELSE most_common(non_empty_lengths(jd))

AdjustAll(jd) ==
    IF ~HasArrays(jd) \/ non_empty_lengths(jd) = <<>> THEN jd
    ELSE [i \in 1..Len(jd) |->
             AdjustArray([jd[i] EXCEPT !.isList = TRUE],
                         most_common(non_empty_lengths(jd)))]

ensure_equal_length_arrays(jd) ==
    IF ~HasArrays(jd) THEN jd
    ELSE IF non_empty_lengths(jd) = <<>> THEN jd
    ELSE LET n == most_common(non_empty_lengths(jd))
         IN  [i \in 1..Len(jd) |->
                 IF jd[i].isList THEN AdjustArray(jd[i], n) ELSE jd[i]]

(***************************************************************************)
(* The inputs of the reconciliation: every object of at most MaxFields     *)
(* fields with distinct keys, in every key order, each field a scalar or   *)
(* an array of 0..MaxLen elements.  The function never reads an element,   *)
(* so the i-th element of an array is a value that names its position.     *)
(***************************************************************************)
Letter(i) == CASE i = 1 -> "a" [] i = 2 -> "b" [] i = 3 -> "c" [] i = 4 -> "d"
               [] OTHER -> "e"

Element(key, i) == IF key \in NumericKeys THEN Num(i) ELSE Str(<<Letter(i)>>)

\* The value of a field by its shape: an array of shape = 0..MaxLen elements, or
\* (shape = MaxLen + 1) a scalar.
FieldOfShape(key, shape) ==
    IF shape > MaxLen THEN ScalarField(key, Str(<<"s">>))
    ELSE ListField(key, [i \in 1..shape |-> Element(key, i)])

\* A dict holds a key once.
Injective(f) == \A i, j \in DOMAIN f : i # j => f[i] # f[j]

InitRecon ==
    /\ pc = "raw"
    /\ \E n \in 0..MaxFields :
           \E keys \in [1..n -> FieldNames], shapes \in [1..n -> 0..(MaxLen + 1)] :
               /\ Injective(keys)
               /\ json_data = [i \in 1..n |-> FieldOfShape(keys[i], shapes[i])]
    /\ IdleParse
    /\ reconciled = <<>>
    /\ target_length = 0
    /\ IdleDoc
    /\ IdleFolder
    /\ IdleRetry

Reconcile ==
    /\ pc = "raw"
    /\ pc' = "reconciled"
    /\ reconciled' = ensure_equal_length_arrays(json_data)
    /\ target_length' = TargetLength(json_data)
    /\ UNCHANGED <<json_data, parseVars, docVars, folderVars, retryVars>>

NextRecon == Reconcile

SpecRecon == InitRecon /\ [][NextRecon]_vars

(***************************************************************************)
(* process_pdf / process_image, from the response on: the object is        *)
(* checked, reconciled, made a DataFrame, its numeric columns coerced, the *)
(* markup and the source added, and the frame cleaned.  Any exception is   *)
(* caught and an empty DataFrame returned.                                 *)
(***************************************************************************)
\* pd.DataFrame(json_data) raises ValueError when every value is a scalar and
\* when the arrays differ in length.
ArrayLengths(jd) == {Len(jd[i].items) : i \in ArrayIndices(jd)}
FrameRaises(jd) == Cardinality(ArrayLengths(jd)) # 1

\* A scalar is repeated in every row.
CellOf(jd, c, i) ==
    IF ~HasKey(jd, c) THEN Absent
    ELSE IF Get(jd, c).isList THEN Get(jd, c).items[i]
    ELSE Get(jd, c).items[1]

DataFrame(jd) ==
    [cols |-> {c \in Columns : HasKey(jd, c)},
     rows |-> [i \in 1..(CHOOSE l \in ArrayLengths(jd) : TRUE) |->
                  [c \in Columns |-> CellOf(jd, c, i)]]]

Digit(c) ==
    CASE c = "0" -> 0 [] c = "1" -> 1 [] c = "2" -> 2 [] c = "3" -> 3
      [] c = "4" -> 4 [] c = "5" -> 5 [] c = "6" -> 6 [] c = "7" -> 7
      [] c = "8" -> 8 [] c = "9" -> 9 [] OTHER -> -1

IsDigits(s) == s # <<>> /\ \A i \in 1..Len(s) : Digit(s[i]) >= 0

RECURSIVE DigitsValue(_)
DigitsValue(s) ==
    IF s = <<>> THEN 0
    ELSE 10 * DigitsValue(SubSeq(s, 1, Len(s) - 1)) + Digit(s[Len(s)])

\* pd.to_numeric(..., errors='coerce') on one value: a number stays, a string
\* of digits is read, anything else is NaN.
KeepAsIs(c) == c
to_numeric(c) ==
    CASE c.t = "num" -> c
      [] c.t = "str" -> IF IsDigits(c.s) THEN Num(DigitsValue(c.s)) ELSE Null
      [] OTHER -> Null

\* for col in ['Qty', 'U.Price', 'Total']: if col in df.columns: ...
CoerceColumns(df) ==
    [df EXCEPT !.rows = [i \in 1..Len(df.rows) |->
        [c \in Columns |-> IF c \in NumericKeys /\ c \in df.cols
                           THEN to_numeric(df.rows[i][c])
                           ELSE df.rows[i][c]]]]

\* df['U.Price'] * 1.25: NaN stays NaN.
MarkupOfTotal(row) ==
    IF row["Total"].t = "num"
    THEN Frac(row["Total"].n * 125, row["Total"].d * 100) ELSE Null
MarkedUp(row) ==
    IF row["U.Price"].t = "num"
    THEN Frac(row["U.Price"].n * 125, row["U.Price"].d * 100) ELSE Null

AddMarkup(df) ==
    IF "U.Price" \notin df.cols THEN df
    ELSE [cols |-> df.cols \cup {"Marked_Up_Price"},
          rows |-> [i \in 1..Len(df.rows) |->
                       [df.rows[i] EXCEPT !["Marked_Up_Price"] = MarkedUp(df.rows[i])]]]

\* df['Source'] = os.path.basename(pdf_path)
AddSource(df, name) ==
    [cols |-> df.cols \cup {"Source"},
     rows |-> [i \in 1..Len(df.rows) |->
                  [df.rows[i] EXCEPT !["Source"] = Str(<<name>>)]]]

\* str.strip(): white space off both ends.
IsSpace(c) == c = " "

RECURSIVE lstrip(_)
lstrip(s) == IF s # <<>> /\ IsSpace(Head(s)) THEN lstrip(Tail(s)) ELSE s

RECURSIVE rstrip(_)
rstrip(s) ==
    IF s # <<>> /\ IsSpace(s[Len(s)]) THEN rstrip(SubSeq(s, 1, Len(s) - 1)) ELSE s

strip(s) == rstrip(lstrip(s))

\* df['Product'].str: a column of numbers (NaN among them or not) has no .str
\* accessor and raises AttributeError; in a column of objects a value that is
\* not a string gives NaN.
IsNumericColumn(df, c) ==
    /\ \E i \in 1..Len(df.rows) : df.rows[i][c].t = "num"
    /\ \A i \in 1..Len(df.rows) : df.rows[i][c].t \in {"num", "null"}

str_strip(c) == IF c.t = "str" THEN Str(strip(c.s)) ELSE Null
notna(c) == c.t # "null"

\* (df['Product'].str.strip() != '') & (df['Product'].notna())
EitherMask(c) == (str_strip(c) # Str(<<>>)) \/ notna(c)
ProductMask(c) == (str_strip(c) # Str(<<>>)) /\ notna(c)

\* (df['Total'] > 0) & df['Total'].notna()
TotalMask(c) == (c.t = "num" /\ c.n > 0) /\ notna(c)

KeepRow(row) == ProductMask(row["Product"]) \/ TotalMask(row["Total"])

\* clean_dataframe: the exception it raises ("": none) and the frame it returns.
CleanRaises(df) ==
    IF "Product" \notin df.cols THEN "KeyError"
    ELSE IF IsNumericColumn(df, "Product") THEN "AttributeError"
    ELSE IF "Total" \notin df.cols THEN "KeyError"
    ELSE ""

clean_dataframe(df) == [df EXCEPT !.rows = SelectSeq(df.rows, KeepRow)]

Outcome(exc, before, after) ==
    [raised |-> exc, candidates |-> before, returned |-> after]

\* A document is its name and what json.loads made of the span of its response
\* (NoResult: no span, or not JSON).
process_pdf(doc) ==
    LET checked == product_check(doc.loaded)
        jd == ensure_equal_length_arrays(checked.data)
        df == AddSource(AddMarkup(CoerceColumns(DataFrame(jd))), doc.name)
    IN  IF ~checked.some THEN Outcome("", EmptyFrame, EmptyFrame)
        ELSE IF FrameRaises(jd) THEN Outcome("ValueError", EmptyFrame, EmptyFrame)
        ELSE IF CleanRaises(df) # "" THEN Outcome(CleanRaises(df), df, EmptyFrame)
        ELSE Outcome("", df, clean_dataframe(df))

(***************************************************************************)
(* The objects of one document: Product, Qty, U.Price and Total, each      *)
(* absent, or an array of 0..MaxRows values; Product may be a scalar.  The *)
(* keys stand in the order the prompt asks for.                            *)
(***************************************************************************)
ProductElements == {Str(<<" ">>), Str(<<" ", "A">>), Null}
ProductScalars == {Str(<<"A">>), Num(3)}
QtyElements == {Str(<<"7">>), Str(<<"x">>)}
PriceElements == {Num(8), Str(<<"x">>)}
TotalElements == {Num(0), Num(5), Str(<<"x">>)}

Arrays(E) == UNION {[1..n -> E] : n \in 0..MaxRows}

\* The ways a key stands in an object: not at all, as a scalar, as an array.
FieldChoices(key, E, scalars) ==
    {<<>>} \cup {<<ScalarField(key, x)>> : x \in scalars}
           \cup {<<ListField(key, xs)>> : xs \in Arrays(E)}

DocName == "a.pdf"

InitDoc ==
    /\ pc = "loaded"
    /\ \E p \in FieldChoices("Product", ProductElements, ProductScalars),
          q \in FieldChoices("Qty", QtyElements, {}),
          u \in FieldChoices("U.Price", PriceElements, {}),
          t \in FieldChoices("Total", TotalElements, {}) :
              json_data = p \o q \o u \o t
    /\ IdleRecon
    /\ IdleParse
    /\ IdleDoc
    /\ IdleFolder
    /\ IdleRetry

ProcessDocument ==
    /\ pc = "loaded"
    /\ pc' = "processed"
    /\ LET out == process_pdf([name |-> DocName, loaded |-> Result(json_data)])
       IN  /\ candidates' = out.candidates
           /\ returned' = out.returned
           /\ raised' = out.raised
    /\ UNCHANGED <<json_data, retryVars, reconVars, parseVars, folderVars>>

NextDoc == ProcessDocument

SpecDoc == InitDoc /\ [][NextDoc]_vars

(***************************************************************************)
(* process_folder: the loop over the listed files, then the combination.   *)
(* A file is the document its response would give; whether it is a         *)
(* directory, a PDF, an image or something else shows when the loop        *)
(* reaches it.  A file is named by its place in the listing.               *)
(***************************************************************************)
\* process_image runs the lines of process_pdf on the response.
process_image(doc) == process_pdf(doc)

FileName(i) == ToString(i)

\* pd.concat(all_data, ignore_index=True): the columns of all the frames, the
\* rows one frame after the other, NaN where a frame lacks a column.
RECURSIVE ConcatRows(_, _)
ConcatRows(frames, cols) ==
    IF frames = <<>> THEN <<>>
    ELSE LET df == Head(frames)
         IN  [i \in 1..Len(df.rows) |->
                 [c \in Columns |-> IF c \in cols /\ c \notin df.cols THEN Null
                                    ELSE df.rows[i][c]]]
             \o ConcatRows(Tail(frames), cols)

concat(frames) ==
    LET cols == UNION {frames[i].cols : i \in 1..Len(frames)}
    IN  [cols |-> cols, rows |-> ConcatRows(frames, cols)]

\* The code point of a character.
Ord(c) ==
    CASE c = " " -> 32 [] c = "-" -> 45
      [] c = "A" -> 65 [] c = "B" -> 66 [] c = "x" -> 120
      [] OTHER -> 48 + Digit(c)

\* Python's order of strings: by the first character that differs, a proper
\* prefix first.
RECURSIVE StrLess(_, _)
StrLess(a, b) ==
    IF b = <<>> THEN FALSE
    ELSE IF a = <<>> THEN TRUE
    ELSE IF Ord(Head(a)) # Ord(Head(b)) THEN Ord(Head(a)) < Ord(Head(b))
    ELSE StrLess(Tail(a), Tail(b))

\* The order of the values of a sort column, na_position='last'.
CellLess(x, y) ==
    IF x.t = "str" /\ y.t = "str" THEN StrLess(x.s, y.s)
    ELSE x.t = "str" /\ y.t # "str"

CellSame(x, y) == ~CellLess(x, y) /\ ~CellLess(y, x)

\* sort_values(['Date', 'Product']): Date decides, Product among equal dates.
ProductOnlyLess(a, b) == CellLess(a["Product"], b["Product"])
RowLess(a, b) ==
    \/ CellLess(a["Date"], b["Date"])
    \/ CellSame(a["Date"], b["Date"]) /\ CellLess(a["Product"], b["Product"])

\* The sort over several columns is stable: a row goes behind the rows placed
\* before it that are not greater.
RECURSIVE InsertIndex(_, _, _)
InsertIndex(order, k, rows) ==
    IF order = <<>> THEN <<k>>
    ELSE IF RowLess(rows[k], rows[Head(order)]) THEN <<k>> \o order
    ELSE <<Head(order)>> \o InsertIndex(Tail(order), k, rows)

RECURSIVE SortIndexer(_, _)
SortIndexer(rows, n) ==
    IF n = 0 THEN <<>> ELSE InsertIndex(SortIndexer(rows, n - 1), n, rows)

Identity(n) == [i \in 1..n |-> i]
Take(rows, order) == [i \in 1..Len(order) |-> rows[order[i]]]

\* The documents of a folder: Product an array of 1..MaxRows names, Total the
\* row number, Date absent or the one date of the invoice in every row; and a
\* response that holds no JSON.
BatchProducts == {Str(<<"A">>), Str(<<"B">>)}
BatchDates == {<<"1", "0">>, <<"9">>}

Invoice(products, date) ==
    (IF date = <<>> THEN <<>>
     ELSE <<ListField("Date", [i \in 1..Len(products) |-> Str(date)])>>)
    \o <<ListField("Product", products),
         ListField("Total", [i \in 1..Len(products) |-> Num(i)])>>

Responses ==
    {NoResult} \cup
    {Result(Invoice(ps, d)) :
        ps \in UNION {[1..n -> BatchProducts] : n \in {1, MaxRows}},
        d \in BatchDates \cup {<<>>}}

InitFolder ==
    /\ pc = "loop"
    /\ \E n \in 0..MaxFiles : files \in [1..n -> Responses]
    /\ position = 1
    /\ all_data = <<>>
    /\ combined_df = EmptyFrame
    /\ indexer = <<>>
    /\ json_data = <<>>
    /\ IdleRecon
    /\ IdleParse
    /\ IdleDoc
    /\ IdleRetry

InLoop == pc = "loop" /\ position <= Len(files)

\* if os.path.isdir(file_path): continue
SkipDirectory ==
    /\ InLoop
    /\ position' = position + 1
    /\ UNCHANGED <<pc, json_data, retryVars, reconVars, parseVars, docVars,
                   files, all_data, combined_df, indexer>>

\* if not df.empty: all_data.append(df)
Collect(df) ==
    /\ all_data' = IF df.rows # <<>> THEN Append(all_data, df) ELSE all_data
    /\ position' = position + 1
    /\ UNCHANGED <<pc, json_data, retryVars, reconVars, parseVars, docVars,
                   files, combined_df, indexer>>

ProcessPdfFile ==
    /\ InLoop
    /\ Collect(process_pdf([name |-> FileName(position),
                            loaded |-> files[position]]).returned)

ProcessImageFile ==
    /\ InLoop
    /\ Collect(process_image([name |-> FileName(position),
                              loaded |-> files[position]]).returned)

\* The file is a PDF or an image and every attempt of the call to the model
\* fails: 'All retries failed' is raised inside the try of process_pdf or
\* process_image, which returns an empty DataFrame.
CallFailed ==
    /\ InLoop
    /\ Collect(EmptyFrame)

\* Skipping unsupported file
SkipUnsupported ==
    /\ InLoop
    /\ position' = position + 1
    /\ UNCHANGED <<pc, json_data, retryVars, reconVars, parseVars, docVars,
                   files, all_data, combined_df, indexer>>

\* if all_data: concat, clean, sort when there is a Date column, reset the index.
\* Nothing catches an exception of clean_dataframe here: the run ends with it.
CombineResults ==
    /\ pc = "loop"
    /\ position > Len(files)
    /\ all_data # <<>>
    /\ IF CleanRaises(concat(all_data)) # ""
       THEN /\ pc' = "crashed"
            /\ UNCHANGED <<combined_df, indexer>>
       ELSE LET cleaned == clean_dataframe(concat(all_data))
                order == IF "Date" \in cleaned.cols
                         THEN SortIndexer(cleaned.rows, Len(cleaned.rows))
                         ELSE Identity(Len(cleaned.rows))
            IN  /\ indexer' = order
                /\ combined_df' = [cleaned EXCEPT !.rows = Take(cleaned.rows, order)]
                /\ pc' = "done"
    /\ UNCHANGED <<json_data, retryVars, reconVars, parseVars, docVars, files, position, all_data>>

\* No data extracted from any files. Combined file not created.
NoDataExtracted ==
    /\ pc = "loop"
    /\ position > Len(files)
    /\ all_data = <<>>
    /\ pc' = "done"
    /\ UNCHANGED <<json_data, retryVars, reconVars, parseVars, docVars, folderVars>>

NextFolder ==
    \/ SkipDirectory
    \/ ProcessPdfFile
    \/ ProcessImageFile
    \/ CallFailed
    \/ SkipUnsupported
    \/ CombineResults
    \/ NoDataExtracted

SpecFolder == InitFolder /\ [][NextFolder]_vars

(***************************************************************************)
(* process_folder over documents that fail in every way a document can:    *)
(* no JSON or invalid JSON, no Product or an empty one, no Total (KeyError *)
(* in clean_dataframe), a Product that is one number (AttributeError), all *)
(* rows dropped by clean_dataframe; and documents whose Product array      *)
(* holds names, blanks and numbers.  No document has a Date, so the        *)
(* combination applies no sort.                                            *)
(***************************************************************************)
MixedProducts == {Str(<<"A">>), Str(<<" ">>), Num(3)}

Statement(products) ==
    <<ListField("Product", products),
      ListField("Total", [i \in 1..Len(products) |-> Num(0)])>>

FailingResponses ==
    {NoResult,
     Result(<<ListField("Total", <<Num(5)>>)>>),
     Result(<<ListField("Product", <<>>), ListField("Total", <<Num(5)>>)>>),
     Result(<<ListField("Product", <<Str(<<"A">>)>>)>>),
     Result(<<ScalarField("Product", Num(3)), ListField("Total", <<Num(5)>>)>>)}

BatchResponses ==
    FailingResponses \cup
    {Result(Statement(ps)) :
        ps \in UNION {[1..n -> MixedProducts] : n \in {1, MaxRows}}}

InitBatch ==
    /\ pc = "loop"
    /\ \E n \in 0..MaxFiles : files \in [1..n -> BatchResponses]
    /\ position = 1
    /\ all_data = <<>>
    /\ combined_df = EmptyFrame
    /\ indexer = <<>>
    /\ json_data = <<>>
    /\ IdleRecon
    /\ IdleParse
    /\ IdleDoc
    /\ IdleRetry

SpecBatch == InitBatch /\ [][NextFolder]_vars

(***************************************************************************)
(* call_claude_with_retries / call_gemini_with_retries: the loop           *)
(* for attempt in range(retries).  An attempt calls the model once; the    *)
(* call returns a text, raises, or (Claude) returns a response without a   *)
(* text block, which raises ValueError inside the try.  calls and sleeps   *)
(* record the calls to the model and to time.sleep.                        *)
(***************************************************************************)
Apis == {"claude", "gemini"}

\* for attempt in range(retries): the loop has an attempt left.
OneMore == attempt <= retries
InRange == attempt < retries

\* The argument of time.sleep: delay * (attempt + 1) in call_claude_with_retries,
\* delay in call_gemini_with_retries.
claude_sleep == delay * (attempt + 1)
gemini_sleep == delay
SleepTime == IF api = "claude" THEN claude_sleep ELSE gemini_sleep

\* except Exception: sleep unless this was the last attempt, then go on with
\* the loop.
Handler(outcome) ==
    /\ calls' = Append(calls, outcome)
    /\ sleeps' = IF attempt < retries - 1 THEN Append(sleeps, SleepTime) ELSE sleeps
    /\ attempt' = attempt + 1
    /\ UNCHANGED <<pc, api, retries, delay>>
    /\ UNCHANGED <<json_data, reconVars, parseVars, docVars, folderVars>>

InitRetry ==
    /\ pc = "attempt"
    /\ api \in Apis
    /\ retries \in 0..MaxRetries
    /\ delay \in 1..MaxDelay
    /\ attempt = 0
    /\ calls = <<>>
    /\ sleeps = <<>>
    /\ json_data = <<>>
    /\ IdleRecon
    /\ IdleParse
    /\ IdleDoc
    /\ IdleFolder

\* return message.content[0].text / return response.text
ReturnText ==
    /\ pc = "attempt"
    /\ InRange
    /\ calls' = Append(calls, "text")
    /\ pc' = "returned"
    /\ UNCHANGED <<api, retries, delay, attempt, sleeps>>
    /\ UNCHANGED <<json_data, reconVars, parseVars, docVars, folderVars>>

\* The call to the model raises.
CallRaises ==
    /\ pc = "attempt"
    /\ InRange
    /\ Handler("error")

\* raise ValueError("No text content found in Claude's response")
NoTextContent ==
    /\ pc = "attempt"
    /\ api = "claude"
    /\ InRange
    /\ Handler("no text")

\* raise Exception("All retries failed")
AllRetriesFailed ==
    /\ pc = "attempt"
    /\ ~InRange
    /\ pc' = "failed"
    /\ UNCHANGED <<json_data, reconVars, parseVars, docVars, folderVars, retryVars>>

NextRetry ==
    \/ ReturnText
    \/ CallRaises
    \/ NoTextContent
    \/ AllRetriesFailed

SpecRetry == InitRetry /\ [][NextRetry]_vars

\* The loop runs on: a call to the model returns or raises.
SpecRetryLive == SpecRetry /\ WF_vars(NextRetry)

(***************************************************************************)
(* Properties of ensure_equal_length_arrays (SpecRecon).                   *)
(***************************************************************************)
NonEmptyIndices(jd) == {i \in 1..Len(jd) : IsNonEmptyList(jd[i])}

\* C1: after ensure_equal_length_arrays returns, all array-valued fields have
\* the same length, and when some input array was non-empty that length is
\* the dominant length N the function computed from the input.
C1_EqualLengths ==
    pc = "reconciled" =>
        /\ \A i, j \in ArrayIndices(reconciled) :
               Len(reconciled[i].items) = Len(reconciled[j].items)
        /\ NonEmptyIndices(json_data) # {} =>
               /\ target_length > 0
               /\ \A i \in ArrayIndices(reconciled) :
                      Len(reconciled[i].items) = target_length

\* An input with a scalar-free mix: one array longer than N and one shorter.
C1_Witness ==
    /\ pc = "reconciled"
    /\ \E i, j \in ArrayIndices(json_data) :
           /\ Len(json_data[i].items) > target_length
           /\ Len(json_data[j].items) < target_length
    /\ \A i \in ArrayIndices(reconciled) : Len(reconciled[i].items) = target_length

ExpectedFiller(key) ==
    IF key = "Qty" \/ key = "U.Price" \/ key = "Total" THEN Num(0) ELSE Str(<<>>)

\* C2: given the dominant length N, an empty array becomes N fillers, an array
\* of 1..N-1 elements keeps its elements in order and is padded on the right
\* with fillers to length N, a longer array becomes its first N elements, an
\* array of N elements is unchanged; the filler is the number 0 for Qty,
\* U.Price and Total and the empty string for every other field.  The two
\* examples of the specification are instances.
C2_PerFieldMapping ==
    (pc = "reconciled" /\ target_length > 0) =>
        /\ Len(reconciled) = Len(json_data)
        /\ \A i \in ArrayIndices(json_data) :
               LET old == json_data[i].items
                   new == reconciled[i].items
                   cur == Len(old)
                   N == target_length
               IN  /\ reconciled[i].key = json_data[i].key
                   /\ reconciled[i].isList
                   /\ cur = 0 =>
                          /\ Len(new) = N
                          /\ \A k \in 1..N : new[k] = ExpectedFiller(json_data[i].key)
                   /\ (0 < cur /\ cur < N) =>
                          /\ Len(new) = N
                          /\ \A k \in 1..cur : new[k] = old[k]
                          /\ \A k \in (cur + 1)..N :
                                 new[k] = ExpectedFiller(json_data[i].key)
                   /\ cur > N =>
                          /\ Len(new) = N
                          /\ \A k \in 1..N : new[k] = old[k]
                   /\ cur = N => new = old
        /\ json_data = <<ListField("Product", <<Str(<<"a">>), Str(<<"b">>)>>),
                         ListField("Qty", <<Num(1)>>)>>
               => reconciled[2].items = <<Num(1), Num(0)>>
        /\ json_data = <<ListField("Product", <<>>),
                         ListField("Total", <<Num(1), Num(2)>>)>>
               => reconciled[1].items = <<Str(<<>>), Str(<<>>)>>

\* An empty text array filled, a numeric array padded and an array truncated or
\* kept, in one object.
C2_Witness ==
    /\ pc = "reconciled"
    /\ target_length > 1
    /\ \E i, j \in ArrayIndices(json_data) :
           /\ json_data[i].key \notin NumericKeys
           /\ json_data[i].items = <<>>
           /\ reconciled[i].items = [k \in 1..target_length |-> Str(<<>>)]
           /\ json_data[j].key \in NumericKeys
           /\ Len(json_data[j].items) \in 1..(target_length - 1)
           /\ reconciled[j].items[target_length] = Num(0)

\* How often a length occurs among the non-empty arrays, and where first.
Occurrences(jd, l) == {i \in NonEmptyIndices(jd) : Len(jd[i].items) = l}
FirstOccurrence(jd, l) ==
    CHOOSE i \in Occurrences(jd, l) : \A j \in Occurrences(jd, l) : i <= j
InputLengths(jd) == {Len(jd[i].items) : i \in NonEmptyIndices(jd)}

\* C3: N is the length that occurs most often among the non-empty arrays
\* (scalars and empty arrays are not counted); among lengths that occur equally
\* often, N is the one whose first occurrence is earliest in the field order.
C3_DominantLength ==
    (pc = "reconciled" /\ NonEmptyIndices(json_data) # {}) =>
        /\ target_length \in InputLengths(json_data)
        /\ \A l \in InputLengths(json_data) :
               LET cl == Cardinality(Occurrences(json_data, l))
                   cn == Cardinality(Occurrences(json_data, target_length))
               IN  /\ cl <= cn
                   /\ cl = cn => FirstOccurrence(json_data, target_length)
                                     <= FirstOccurrence(json_data, l)

\* Two lengths tie and the winner is the shorter one, met first; a scalar or an
\* empty array stands before it.
C3_Witness ==
    /\ pc = "reconciled"
    /\ NonEmptyIndices(json_data) # {}
    /\ \E l \in InputLengths(json_data) :
           /\ l > target_length
           /\ Cardinality(Occurrences(json_data, l))
                  = Cardinality(Occurrences(json_data, target_length))
    /\ 1 \notin NonEmptyIndices(json_data)

(***************************************************************************)
(* Properties of extract_json_from_response (SpecParse).                   *)
(***************************************************************************)
FirstOpen(text) == Least(Positions(text, "{"))
LastClose(text) == Greatest(Positions(text, "}"))
HasSpan(text) ==
    /\ Positions(text, "{") # {}
    /\ Positions(text, "}") # {}
    /\ FirstOpen(text) < LastClose(text)
SpanOf(text) == SubSeq(text, FirstOpen(text), LastClose(text))

\* C6: the function parses exactly the span from the first "{" to the last "}"
\* of the text: what stands before and after it is ignored; a text with no "{"
\* followed later by a "}" gives no result; a text whose span is not valid
\* JSON gives no result; a text with one embedded object and prose around it
\* parses to that object.
C6_FirstToLastBrace ==
    pc = "extracted" =>
        /\ ~HasSpan(response_text) => extracted = NoResult
        /\ HasSpan(response_text) =>
               /\ extracted = extract_json_from_response(SpanOf(response_text))
               /\ ~json_loads(SpanOf(response_text)).some => extracted = NoResult
               /\ extracted.some => extracted = json_loads(SpanOf(response_text))
        /\ response_text = <<"w", "{", "P+", "}", "w">>
               => extracted = Result(<<ListField("Product", <<Str(<<"X">>)>>)>>)

\* Prose before and after an object: the object is returned.
C6_Witness ==
    /\ pc = "extracted"
    /\ response_text # <<>>
    /\ response_text[1] = "w"
    /\ response_text[Len(response_text)] = "w"
    /\ extracted.some
    /\ extracted.data # <<>>

\* The Product value is an empty array, an empty string or null.
EmptyOrAbsent(f) ==
    IF f.isList THEN f.items = <<>>
    ELSE f.items[1].t = "null" \/ (f.items[1].t = "str" /\ f.items[1].s = <<>>)

\* The Product value is false for Python: empty or absent, or the number 0.
Falsy(f) ==
    \/ EmptyOrAbsent(f)
    \/ (~f.isList /\ f.items[1].t \in {"num", "obj"} /\ f.items[1].n = 0)

Loaded == json_loads(SpanOf(response_text))
ParsesAsObject == pc = "extracted" /\ HasSpan(response_text) /\ Loaded.some

\* C7 as stated: when the span parses as an object, there is no result exactly
\* when the object has no Product key or its Product value is empty or
\* absent, and otherwise the parsed mapping is returned unchanged.
C7_AsStated ==
    ParsesAsObject =>
        /\ extracted = NoResult <=>
               (~HasKey(Loaded.data, "Product")
                    \/ EmptyOrAbsent(Get(Loaded.data, "Product")))
        /\ extracted.some => extracted.data = Loaded.data

\* C7, amended: when the span parses as an object, there is no result exactly
\* when the object has no Product key or its Product value is false for Python
\* (null, an empty array, string or object, or the number 0), and otherwise
\* the parsed mapping is returned unchanged: same keys, values and order.
C7_MissingProduct ==
    ParsesAsObject =>
        /\ extracted = NoResult <=>
               (~HasKey(Loaded.data, "Product")
                    \/ Falsy(Get(Loaded.data, "Product")))
        /\ extracted.some => extracted.data = Loaded.data

\* An object whose Product is the number 0 is refused, as is one whose Product
\* array is empty; here the former, beside a Total.
C7_Witness ==
    /\ ParsesAsObject
    /\ Len(Loaded.data) > 1
    /\ HasKey(Loaded.data, "Product")
    /\ Get(Loaded.data, "Product") = ScalarField("Product", Num(0))
    /\ extracted = NoResult

(***************************************************************************)
(* Properties of the per-document pipeline (SpecDoc).                      *)
(***************************************************************************)
RowsOf(df) == {df.rows[i] : i \in 1..Len(df.rows)}

\* The predicate of the specification: Product, trimmed, is not empty, or Total
\* is a number greater than 0.
NonEmptyTrimmed(c) == c.t = "str" /\ \E k \in 1..Len(c.s) : c.s[k] # " "
PositiveNumber(c) == c.t = "num" /\ c.n > 0
StatedKeep(row) == NonEmptyTrimmed(row["Product"]) \/ PositiveNumber(row["Total"])

\* C4: every row of the DataFrame process_pdf returns has a Product that is
\* non-empty after trimming or a Total that is a number greater than 0; a row
\* with a blank Product and Total 0 is never in the result.
C4_RetainedRows ==
    pc = "processed" =>
        \A r \in RowsOf(returned) :
            /\ StatedKeep(r)
            /\ ~(r["Product"] = Str(<<" ">>) /\ r["Total"] = Num(0))

\* A row kept for its Total alone, its Product blank, while another row of the
\* document was dropped.
C4_Witness ==
    /\ pc = "processed"
    /\ raised = ""
    /\ Len(returned.rows) < Len(candidates.rows)
    /\ \E r \in RowsOf(returned) :
           /\ r["Product"] = Str(<<" ">>)
           /\ r["Total"] = Num(5)

\* C5, as stated: for every object the parser accepts, the rows returned are
\* exactly the candidate rows that satisfy the predicate, in their order; no
\* row that satisfies it is dropped.
C5_KeptIffPredicate ==
    (pc = "processed" /\ product_check(Result(json_data)).some) =>
        LET rec == ensure_equal_length_arrays(json_data)
            rows == IF FrameRaises(rec) THEN <<>>
                    ELSE CoerceColumns(DataFrame(rec)).rows
        IN  /\ Len(returned.rows) = Len(SelectSeq(rows, StatedKeep))
            /\ \A i \in 1..Len(returned.rows) :
                   \A c \in {"Product", "Qty", "U.Price", "Total"} :
                       returned.rows[i][c] = SelectSeq(rows, StatedKeep)[i][c]

\* A string that pd.to_numeric cannot read as a number.
Uncoercible(c) ==
    c.t = "str" /\ (c.s = <<>> \/ \E k \in 1..Len(c.s) : Digit(c.s[k]) < 0)

\* The object with null in the place of every value of Qty, U.Price and Total
\* that cannot be coerced.
Nullified(jd) ==
    [i \in 1..Len(jd) |->
        IF jd[i].key \in {"Qty", "U.Price", "Total"}
        THEN [jd[i] EXCEPT !.items =
                 [k \in 1..Len(jd[i].items) |->
                     IF Uncoercible(jd[i].items[k]) THEN Null ELSE jd[i].items[k]]]
        ELSE jd[i]]

\* C8: each value of Qty, U.Price and Total is coerced on its own: a value that
\* cannot be coerced is null in its cell and a number stays the number it was;
\* the failure raises nothing (an exception has another cause: no array, a
\* numeric Product column, no Total column), the document fares as it would
\* with null in the place of the value, and when the pipeline completes a row
\* whose Product is not blank is returned whatever failed to coerce in it.
C8_CoercionDegradesToNull ==
    pc = "processed" =>
        LET rec == ensure_equal_length_arrays(json_data)
            alike == process_pdf([name |-> DocName, loaded |-> Result(Nullified(json_data))])
        IN  /\ \A i \in 1..Len(candidates.rows) :
                   \A c \in {"Qty", "U.Price", "Total"} \cap candidates.cols :
                       LET raw == CellOf(rec, c, i)
                           cell == candidates.rows[i][c]
                       IN  /\ Uncoercible(raw) => cell = Null
                           /\ raw.t = "num" => cell = raw
                           /\ raw.t = "null" => cell = Null
                           /\ cell.t \in {"num", "null"}
            /\ raised # "" =>
                   \/ ArrayIndices(json_data) = {}
                   \/ ~HasKey(json_data, "Total")
                   \/ (HasKey(json_data, "Product")
                          /\ ~Get(json_data, "Product").isList
                          /\ Get(json_data, "Product").items[1].t = "num")
            /\ returned = alike.returned
            /\ raised = alike.raised
            /\ raised = "" =>
                   \A r \in RowsOf(candidates) :
                       NonEmptyTrimmed(r["Product"]) => r \in RowsOf(returned)

\* A returned row whose Total could not be coerced and is null, whose Qty was
\* read from a string of digits, and whose Product is not blank.
C8_Witness ==
    /\ pc = "processed"
    /\ raised = ""
    /\ \E i \in 1..Len(candidates.rows) :
           /\ CellOf(ensure_equal_length_arrays(json_data), "Total", i) = Str(<<"x">>)
           /\ CellOf(ensure_equal_length_arrays(json_data), "Qty", i) = Str(<<"7">>)
           /\ candidates.rows[i]["Total"] = Null
           /\ candidates.rows[i]["Qty"] = Num(7)
           /\ candidates.rows[i] \in RowsOf(returned)

\* C9: in every returned row Marked_Up_Price is null exactly when U.Price is
\* null, and otherwise it is U.Price times 1.25 (mup.n / mup.d = 125/100 of
\* U.Price); a frame without a U.Price column has no Marked_Up_Price column.
C9_MarkedUpPrice ==
    pc = "processed" =>
        /\ ("Marked_Up_Price" \in returned.cols) = ("U.Price" \in returned.cols)
        /\ \A r \in RowsOf(returned) :
               LET up == r["U.Price"]
                   mup == r["Marked_Up_Price"]
               IN  /\ (mup = Absent) = (up = Absent)
                   /\ (mup = Null) = (up = Null)
                   /\ up.t = "num" =>
                          /\ mup.t = "num"
                          /\ mup.n * up.d * 100 = 125 * up.n * mup.d

\* Two returned rows: one with U.Price 8 and Marked_Up_Price 10 beside a Total
\* of 5, one whose U.Price could not be coerced.
C9_Witness ==
    /\ pc = "processed"
    /\ \E r, q \in RowsOf(returned) :
           /\ r["U.Price"] = Num(8)
           /\ r["Total"] = Num(5)
           /\ r["Marked_Up_Price"].n = 10 * r["Marked_Up_Price"].d
           /\ q["U.Price"] = Null
           /\ q["Marked_Up_Price"] = Null
    /\ \E k \in 1..Len(json_data) :
           json_data[k].key = "U.Price" /\ Str(<<"x">>) \in {json_data[k].items[j] : j \in 1..Len(json_data[k].items)}

(***************************************************************************)
(* Properties of process_folder (SpecFolder).                              *)
(***************************************************************************)
\* The order of the sort keys under string comparison; a missing value (NaN,
\* or no such column) stands after every string and beside the other missing
\* values.
ValueLeq(x, y) ==
    IF x.t = "str" /\ y.t = "str" THEN ~StrLess(y.s, x.s) ELSE y.t # "str"
ValueEq(x, y) == ValueLeq(x, y) /\ ValueLeq(y, x)
KeyLeq(a, b) ==
    /\ ValueLeq(a["Date"], b["Date"])
    /\ ValueEq(a["Date"], b["Date"]) => ValueLeq(a["Product"], b["Product"])
KeyEq(a, b) == KeyLeq(a, b) /\ KeyLeq(b, a)

Combined == pc = "done" /\ all_data # <<>>

\* The rows of the combined frame are those of the concatenation of the
\* collected frames, in the order of indexer.
FromConcatenation ==
    /\ Len(indexer) = Len(concat(all_data).rows)
    /\ {indexer[i] : i \in 1..Len(indexer)} = 1..Len(indexer)
    /\ combined_df.rows = Take(concat(all_data).rows, indexer)

\* Adjacent rows ascend by (Date, Product).
Ordered ==
    \A i \in 1..(Len(combined_df.rows) - 1) :
        KeyLeq(combined_df.rows[i], combined_df.rows[i + 1])

\* Rows of equal keys stand as in the concatenation.
Stable ==
    \A i, j \in 1..Len(combined_df.rows) :
        (i < j /\ KeyEq(combined_df.rows[i], combined_df.rows[j]))
            => indexer[i] < indexer[j]

\* C10 as stated: for every batch the combined result is ordered by (Date,
\* Product) ascending under string comparison, and rows of equal keys keep the
\* order of the concatenation of the per-document results.
C10_AsStated == Combined => (FromConcatenation /\ Ordered /\ Stable)

\* C10, amended: when the concatenation has a Date column (some contributing
\* document gave a Date) the combined result is ordered by (Date, Product)
\* ascending under string comparison, a missing value after every string, and
\* rows of equal keys keep the order of the concatenation; when no
\* contributing document gave a Date the rows are not sorted and stay in the
\* order of the concatenation.
C10_SortedWhenDated ==
    Combined =>
        /\ FromConcatenation
        /\ "Date" \in combined_df.cols => (Ordered /\ Stable)
        /\ "Date" \notin combined_df.cols => indexer = Identity(Len(indexer))

\* A batch the sort reorders: the rows of a dated document change places, the
\* rows of an undated one follow them, and two rows have equal keys.
C10_Witness ==
    /\ Combined
    /\ "Date" \in combined_df.cols
    /\ indexer # Identity(Len(indexer))
    /\ \E i \in 1..(Len(combined_df.rows) - 1) :
           /\ combined_df.rows[i]["Date"] = Str(<<"1", "0">>)
           /\ combined_df.rows[i + 1]["Date"] = Null
    /\ \E i, j \in 1..Len(combined_df.rows) :
           i < j /\ KeyEq(combined_df.rows[i], combined_df.rows[j])

(***************************************************************************)
(* Properties of the aggregation and of the failures of documents          *)
(* (SpecBatch).                                                            *)
(***************************************************************************)
\* How often a row stands in a sequence of rows.
CountRow(rows, r) == Cardinality({i \in 1..Len(rows) : rows[i] = r})

SameMultiset(rows, others) ==
    /\ Len(rows) = Len(others)
    /\ \A i \in 1..Len(rows) : CountRow(rows, rows[i]) = CountRow(others, rows[i])

LoopOver == pc # "loop" /\ all_data # <<>>

\* C11, as stated: once the loop is over and some document gave rows, the
\* combined result holds, as a multiset, exactly the rows of the concatenation
\* of the per-document results, identical rows as often as they came; and
\* clean_dataframe applied again, to a per-document result or to the
\* concatenation, raises nothing and removes nothing.
C11_NoRowLostOrInvented ==
    /\ \A k \in 1..Len(all_data) :
           /\ CleanRaises(all_data[k]) = ""
           /\ clean_dataframe(all_data[k]) = all_data[k]
    /\ LoopOver =>
           /\ CleanRaises(concat(all_data)) = ""
           /\ clean_dataframe(concat(all_data)) = concat(all_data)
           /\ SameMultiset(combined_df.rows, concat(all_data).rows)

\* What the statement comes to in the runs that reach the end.
C11_WhenCombined ==
    Combined =>
        /\ clean_dataframe(concat(all_data)) = concat(all_data)
        /\ SameMultiset(combined_df.rows, concat(all_data).rows)

\* The document at a place of the listing, and whether it ends in one of the
\* failures: nothing returned by extract_json_from_response, an exception
\* caught in process_pdf, or no row left by clean_dataframe.
DocumentAt(k) == [name |-> FileName(k), loaded |-> files[k]]
FailsAt(k) ==
    \/ ~product_check(files[k]).some
    \/ process_pdf(DocumentAt(k)).raised # ""
    \/ process_pdf(DocumentAt(k)).returned.rows = <<>>

\* Every step of the loop goes on to the next file, and a failing document adds
\* nothing to all_data.
FailuresSkipped ==
    [][InLoop => /\ position' = position + 1
                 /\ pc' = "loop"
                 /\ FailsAt(position) => all_data' = all_data]_vars

\* C12, as stated: a document that fails contributes no row and the loop goes
\* on to the files after it, and for every batch process_folder reaches its
\* end: no exception ends the run, and the rows of the documents that
\* succeeded are aggregated.
C12_NoFatalPath ==
    /\ FailuresSkipped
    /\ [](pc # "crashed")
    /\ [](pc = "done" =>
              /\ position = Len(files) + 1
              /\ SameMultiset(combined_df.rows, concat(all_data).rows))

(***************************************************************************)
(* Further properties of ensure_equal_length_arrays (SpecRecon).           *)
(***************************************************************************)
\* C13: ensure_equal_length_arrays is idempotent: applied to its own output it
\* returns that output, with the same keys in the same order, the same
\* lengths and the same elements, and it computes the same target length
\* again.
C13_Idempotent ==
    pc = "reconciled" =>
        /\ ensure_equal_length_arrays(reconciled) = reconciled
        /\ TargetLength(reconciled) = target_length

\* An object the first application changed: an empty array filled and an
\* array padded or truncated.
C13_Witness ==
    /\ pc = "reconciled"
    /\ reconciled # json_data
    /\ \E i, j \in ArrayIndices(json_data) :
           /\ Len(json_data[i].items) = 0
           /\ Len(json_data[j].items) > 0
           /\ Len(json_data[j].items) # target_length
    /\ ensure_equal_length_arrays(reconciled) = reconciled

\* C14 as stated: after reconciliation every field of {Date, Product, Qty,
\* U.Price, Total} is a sequence of length N, the fields absent from the raw
\* object among them, filled with N placeholders of their type.
C14_AsStated ==
    (pc = "reconciled" /\ target_length > 0) =>
        \A key \in FieldNames :
            /\ HasKey(reconciled, key)
            /\ Get(reconciled, key).isList
            /\ Len(Get(reconciled, key).items) = target_length
            /\ ~HasKey(json_data, key) =>
                   \A k \in 1..target_length :
                       Get(reconciled, key).items[k] = ExpectedFiller(key)

\* C14, amended: when some array of the raw object is non-empty, the
\* reconciled object has the keys of the raw object and no other, in the same
\* order; every array of the raw object is an array of length N, an empty one
\* filled with N placeholders (the number 0 for Qty, U.Price and Total, the
\* empty string otherwise); a scalar field is left as it was, and a field of
\* the fixed set that the raw object lacks is still lacking.
C14_PresentArraysOnly ==
    (pc = "reconciled" /\ target_length > 0) =>
        /\ Len(reconciled) = Len(json_data)
        /\ \A i \in 1..Len(json_data) :
               /\ reconciled[i].key = json_data[i].key
               /\ json_data[i].isList =>
                      /\ reconciled[i].isList
                      /\ Len(reconciled[i].items) = target_length
                      /\ json_data[i].items = <<>> =>
                             \A k \in 1..target_length :
                                 reconciled[i].items[k] = ExpectedFiller(json_data[i].key)
               /\ ~json_data[i].isList => reconciled[i] = json_data[i]
        /\ \A key \in FieldNames : HasKey(reconciled, key) = HasKey(json_data, key)

\* An object with an empty array that is filled, a scalar that stays a scalar,
\* and fields of the fixed set that stay absent.
C14_Witness ==
    /\ pc = "reconciled"
    /\ target_length > 1
    /\ \E i, j \in 1..Len(json_data) :
           /\ json_data[i].isList /\ json_data[i].items = <<>>
           /\ Len(reconciled[i].items) = target_length
           /\ ~json_data[j].isList /\ ~reconciled[j].isList
    /\ \E key \in FieldNames : ~HasKey(reconciled, key)

(***************************************************************************)
(* Properties of the retry loops (SpecRetry, SpecRetryLive).               *)
(***************************************************************************)
Finished == pc \in {"returned", "failed"}
Failed(k) == calls[k] # "text"

AttemptsInOrder ==
    /\ Len(calls) <= retries
    /\ \A k \in 1..(Len(calls) - 1) : Failed(k)
    /\ pc = "attempt" => (Len(calls) = attempt /\ \A k \in 1..Len(calls) : Failed(k))
    /\ pc = "returned" => (calls # <<>> /\ calls[Len(calls)] = "text")
    /\ pc = "failed" => (Len(calls) = retries /\ \A k \in 1..Len(calls) : Failed(k))
    /\ api = "gemini" => \A k \in 1..Len(calls) : calls[k] # "no text"

\* C15: one invocation makes at most retries calls to the model; every call
\* but the last one made has failed (the call raised, or in the Claude version
\* the response had no text block), so an attempt follows only a failed one;
\* the function returns exactly on the first call that gives a text and makes
\* no call after it; it raises 'All retries failed' only when exactly retries
\* calls were made and all failed; and whatever the failures, it finishes.
C15_BoundedRetries ==
    /\ []AttemptsInOrder
    /\ [][Finished => calls' = calls]_vars
    /\ <>Finished

\* The Claude version returning the text of its third call, after a call that
\* raised and a response without a text block.
C15_Witness ==
    /\ api = "claude"
    /\ pc = "returned"
    /\ calls = <<"error", "no text", "text">>
    /\ retries > 3

ExpectedSleeps ==
    IF pc = "returned" THEN Len(calls) - 1
    ELSE IF attempt = retries /\ retries > 0 THEN retries - 1
    ELSE attempt

\* C16, as stated: in call_claude_with_retries the first wait is delay, each
\* later wait is the wait before it times one constant greater than 1, a wait
\* follows every failed attempt but the last possible one, and none follows
\* the last failed attempt or a successful one.
C16_ExponentialBackoff ==
    api = "claude" =>
        /\ Len(sleeps) = ExpectedSleeps
        /\ sleeps # <<>> => sleeps[1] = delay
        /\ \A k \in 2..Len(sleeps) : sleeps[k] > sleeps[k - 1]
        /\ \A k \in 3..Len(sleeps) :
               sleeps[k] * sleeps[k - 2] = sleeps[k - 1] * sleeps[k - 1]

=============================================================================
